---------------------------- MODULE Spec2Model ----------------------------
(***************************************************************************)
(* Arcade machine catalog (src/arcade_catalog.py): videogames, machines,   *)
(* the five machine templates, the three material decorators, the machine  *)
(* factory and the catalog manager with its six searches; its command-line *)
(* front end (src/arcademachingCLI.py); and the console menu program       *)
(* (src/menu.py).                                                          *)
(*                                                                         *)
(* Representation.                                                         *)
(*  - Python objects live in heaps: `games` and `machines` are sequences   *)
(*    of records and an object's identity is its index.  Python's `in`,    *)
(*    list.remove and == on Videogame/Machine (no __eq__ defined) compare  *)
(*    identities, so lists of objects are sequences of indices.            *)
(*  - Prices, weights, power and dimensions are decimal fixed-point        *)
(*    numbers counted in hundredths (Units(200) is 200.00).  A factor such *)
(*    as 1.1 is the percentage 110 and v * 1.1 is Pct(v, 110).  All inputs *)
(*    are chosen so that every product is exact; the binary rounding of    *)
(*    Python's float is not represented.                                   *)
(*  - Strings that the code passes through str.lower() (materials, game    *)
(*    names) are sequences of characters, so that lower() is computed      *)
(*    character by character.  Other strings are TLA+ strings.             *)
(***************************************************************************)
EXTENDS Integers, Sequences, FiniteSets, TLC

(***************************************************************************)
(* Bounds of the model.                                                    *)
(***************************************************************************)
\* machines the factory may construct
MaxMachines == 2
\* objects (machines and videogames together) on the heap
MaxObjects == 3
\* entries in all videogames lists together
MaxAttached == 2
\* entries in the catalog's store
MaxCatalog == 2

(***************************************************************************)
(* State.                                                                  *)
(*   machines   the Machine objects constructed so far (identity = index)  *)
(*   games      the Videogame objects constructed so far                   *)
(*   catalog    CatalogManager.machines, a list of machine identities      *)
(*   call       the last call made: its name and its arguments (and, for   *)
(*              remove_videogame, whether `game in self.videogames` held)  *)
(*   result     the value that call returned (None for a procedure; the    *)
(*              identity of the object for a constructor; a list of        *)
(*              machine identities for a search)                           *)
(*   factory_log  history: for each machine, the arguments of the factory  *)
(*              call that made it and the machine as that call returned it *)
(*   game_log   history: for each videogame, the price its constructor was *)
(*              given                                                      *)
(*   frame      the local variables of the create_machine call in progress *)
(*              when the factory is followed statement by statement, and   *)
(*              the statement it is at (pc)                                *)
(*   menu       the console menu program (src/menu.py): the statement      *)
(*              menu.main is at, the text last entered at the choice       *)
(*              prompt, the choice get_valid_choice returned, the          *)
(*              exception that left the function running, the last message *)
(*              printed and the console actions run so far                 *)
(***************************************************************************)
VARIABLES machines, games, catalog, call, result, factory_log, game_log,
          frame, menu

vars ==
  << machines, games, catalog, call, result, factory_log, game_log, frame,
     menu >>

(***************************************************************************)
(* Numbers and strings.                                                    *)
(***************************************************************************)
\* x whole units, in hundredths
Units(x) == x * 100

\* v * (p / 100), the product of a value and a factor given as a percentage
Pct(v, p) == (v * p) \div 100

\* A returned value is a sequence of at most one entry where the code returns
\* an optional object: None is the empty sequence, Some(x) the object x.
None == << >>
Some(x) == << x >>

UpperLetters ==
  << "A", "B", "C", "D", "E", "F", "G", "H", "I", "J", "K", "L", "M",
     "N", "O", "P", "Q", "R", "S", "T", "U", "V", "W", "X", "Y", "Z" >>

LowerLetters ==
  << "a", "b", "c", "d", "e", "f", "g", "h", "i", "j", "k", "l", "m",
     "n", "o", "p", "q", "r", "s", "t", "u", "v", "w", "x", "y", "z" >>

\* str.lower() on one character
LowerChar(c) ==
  IF \E i \in DOMAIN UpperLetters : UpperLetters[i] = c
    THEN LowerLetters[CHOOSE i \in DOMAIN UpperLetters : UpperLetters[i] = c]
    ELSE c

\* str.lower()
lower(s) == [i \in 1..Len(s) |-> LowerChar(s[i])]

\* the keys of material_decorators
wood == << "w", "o", "o", "d" >>
aluminium == << "a", "l", "u", "m", "i", "n", "i", "u", "m" >>
carbon_fiber == << "c", "a", "r", "b", "o", "n", " ", "f", "i", "b", "e", "r" >>

(***************************************************************************)
(* Dimensions, Videogame, Machine.                                         *)
(***************************************************************************)
Dimensions(length, width, height) ==
  [length |-> length, width |-> width, height |-> height]

\* the factor of the high-definition markup, in percent (price *= 1.1)
HdPricePct == 110

\* Videogame.__init__ with the markup of line 50 outside the `if`
Videogame_always_marked_up(name, storytelling_creator, graphics_creator, category, price, year, is_high_definition) ==
  [name |-> name,
   storytelling_creator |-> storytelling_creator,
   graphics_creator |-> graphics_creator,
   category |-> category,
   price |-> Pct(price, HdPricePct),
   year |-> year,
   is_high_definition |-> is_high_definition]

\* Videogame.__init__
Videogame(name, storytelling_creator, graphics_creator, category, price, year, is_high_definition) ==
  [name |-> name,
   storytelling_creator |-> storytelling_creator,
   graphics_creator |-> graphics_creator,
   category |-> category,
   price |-> IF is_high_definition THEN Pct(price, HdPricePct) ELSE price,
   year |-> year,
   is_high_definition |-> is_high_definition]

\* Machine.__init__; `extra` holds the attributes a template attaches afterwards
Machine(material, dimensions, weight, power_consumption, memory, processors, base_price, color) ==
  [material |-> material,
   dimensions |-> dimensions,
   weight |-> weight,
   power_consumption |-> power_consumption,
   memory |-> memory,
   processors |-> processors,
   base_price |-> base_price,
   color |-> color,
   videogames |-> << >>,
   extra |-> {}]

\* the set of entries of a list
Range(s) == { s[i] : i \in DOMAIN s }

\* the list without its last entry equal to x
RemoveLast(s, x) ==
  LET i == CHOOSE k \in DOMAIN s : s[k] = x /\ \A j \in (k + 1)..Len(s) : s[j] # x
  IN  SubSeq(s, 1, i - 1) \o SubSeq(s, i + 1, Len(s))

\* list.remove(x): the list without its first entry equal to x
RemoveFirst(s, x) ==
  LET i == CHOOSE k \in DOMAIN s : s[k] = x /\ \A j \in 1..(k - 1) : s[j] # x
  IN  SubSeq(s, 1, i - 1) \o SubSeq(s, i + 1, Len(s))

\* add_videogame on a machine that gets heavier and draws more with each game
add_videogame_adding_weight(self, g, game) ==
  [self EXCEPT !.videogames = Append(@, g),
               !.base_price = @ + game.price,
               !.weight = @ + Units(30),
               !.power_consumption = @ + Units(30)]

\* add_videogame charging the game at the machine's material price factor
add_videogame_at_material_price(self, g, game) ==
  LET factor == CASE lower(self.material) = wood -> 95
                  [] lower(self.material) = aluminium -> 110
                  [] lower(self.material) = carbon_fiber -> 120
                  [] OTHER -> 100
  IN  [self EXCEPT !.videogames = Append(@, g),
                   !.base_price = @ + Pct(game.price, factor)]

\* add_videogame without the price update of line 87
add_videogame_append_only(self, g, game) ==
  [self EXCEPT !.videogames = Append(@, g)]

\* add_videogame refusing a game that is already in the list
add_videogame_unique(self, g, game) ==
  IF g \in Range(self.videogames)
    THEN self
    ELSE [self EXCEPT !.videogames = Append(@, g),
                      !.base_price = @ + game.price]

\* Machine.add_videogame, game being the record of the videogame added under
\* identity g
add_videogame(self, g, game) ==
  [self EXCEPT !.videogames = Append(@, g),
               !.base_price = @ + game.price]

\* remove_videogame with the price update of line 97 outside the `if`
remove_videogame_always_refunds(self, g, game) ==
  LET removed == IF g \in Range(self.videogames)
                   THEN [self EXCEPT !.videogames = RemoveFirst(@, g)]
                   ELSE self
  IN  [removed EXCEPT !.base_price = @ - game.price]

\* Machine.remove_videogame
remove_videogame(self, g, game) ==
  IF g \in Range(self.videogames)
    THEN [self EXCEPT !.videogames = RemoveFirst(@, g),
                      !.base_price = @ - game.price]
    ELSE self

\* the prices of the games of a list, one term per entry
RECURSIVE attached_prices(_)
attached_prices(list) ==
  IF list = << >> THEN 0
  ELSE games[Head(list)].price + attached_prices(Tail(list))

\* a variant that quotes the machine without its games
calculate_total_price_without_games(self) ==
  self.base_price - attached_prices(self.videogames)

\* Machine.calculate_total_price
calculate_total_price(self) == self.base_price

(***************************************************************************)
(* The machine templates (PredefinedMachine.create_machine).               *)
(***************************************************************************)
DanceRevolutionMachine(material, color) ==
  [Machine(material, Dimensions(200, 150, 220), Units(200), Units(1000), 8, 2,
           Units(5000), color)
     EXCEPT !.extra = { <<"difficulties", "Easy,Medium,Hard">>,
                        <<"arrow_cardinalities", "4">>,
                        <<"controls_price", "500">> }]

ClassicalArcadeMachine(material, color) ==
  Machine(material, Dimensions(80, 60, 180), Units(100), Units(500), 4, 1,
          Units(3000), color)

ShootingMachine(material, color) ==
  [Machine(material, Dimensions(150, 120, 200), Units(150), Units(800), 8, 2,
           Units(4000), color)
     EXCEPT !.extra = { <<"number_of_guns", "2">>,
                        <<"target_type", "Moving">> }]

RacingMachine(material, color) ==
  [Machine(material, Dimensions(200, 180, 150), Units(180), Units(1200), 16, 4,
           Units(6000), color)
     EXCEPT !.extra = { <<"steering_type", "Force Feedback">>,
                        <<"number_of_seats", "1">> }]

VirtualRealityMachine(material, color) ==
  [Machine(material, Dimensions(250, 250, 220), Units(220), Units(1500), 32, 8,
           Units(8000), color)
     EXCEPT !.extra = { <<"glasses_type", "OLED">>,
                        <<"glasses_resolution", "4K">>,
                        <<"glasses_price", "1000">> }]

\* the keys of predefined_machines
MachineTypes ==
  { "DanceRevolution", "ClassicalArcade", "Shooting", "Racing", "VirtualReality" }

\* predefined_machines[machine_type].create_machine(material, color)
TemplateCreate(machine_type, material, color) ==
  CASE machine_type = "DanceRevolution" -> DanceRevolutionMachine(material, color)
    [] machine_type = "ClassicalArcade" -> ClassicalArcadeMachine(material, color)
    [] machine_type = "Shooting" -> ShootingMachine(material, color)
    [] machine_type = "Racing" -> RacingMachine(material, color)
    [] machine_type = "VirtualReality" -> VirtualRealityMachine(material, color)

(***************************************************************************)
(* The material decorators.  Factors are percentages.                      *)
(***************************************************************************)
WoodWeightPct == 110
WoodPricePct == 95
WoodPowerPct == 115
AluminiumWeightPct == 95
AluminiumPricePct == 110
CarbonFiberWeightPct == 85
CarbonFiberPricePct == 120
CarbonFiberPowerPct == 90

WoodAdjustWeight(m) == [m EXCEPT !.weight = Pct(@, WoodWeightPct)]
WoodAdjustPrice(m) == [m EXCEPT !.base_price = Pct(@, WoodPricePct)]
WoodAdjustPowerConsumption(m) ==
  [m EXCEPT !.power_consumption = Pct(@, WoodPowerPct)]

AluminiumAdjustWeight(m) == [m EXCEPT !.weight = Pct(@, AluminiumWeightPct)]
AluminiumAdjustPrice(m) == [m EXCEPT !.base_price = Pct(@, AluminiumPricePct)]
AluminiumAdjustPowerConsumption(m) == m

CarbonFiberAdjustWeight(m) == [m EXCEPT !.weight = Pct(@, CarbonFiberWeightPct)]
CarbonFiberAdjustPrice(m) == [m EXCEPT !.base_price = Pct(@, CarbonFiberPricePct)]
CarbonFiberAdjustPowerConsumption(m) ==
  [m EXCEPT !.power_consumption = Pct(@, CarbonFiberPowerPct)]

\* material_decorators.get(key, WoodMaterialDecorator): a default decorator
DecoratorFor_default_wood(key) ==
  CASE key = wood -> Some("WoodMaterialDecorator")
    [] key = aluminium -> Some("AluminiumMaterialDecorator")
    [] key = carbon_fiber -> Some("CarbonFiberMaterialDecorator")
    [] OTHER -> Some("WoodMaterialDecorator")

\* material_decorators.get(key): the decorator class, or None
DecoratorFor(key) ==
  CASE key = wood -> Some("WoodMaterialDecorator")
    [] key = aluminium -> Some("AluminiumMaterialDecorator")
    [] key = carbon_fiber -> Some("CarbonFiberMaterialDecorator")
    [] OTHER -> None

adjust_weight(decorator, m) ==
  CASE decorator = "WoodMaterialDecorator" -> WoodAdjustWeight(m)
    [] decorator = "AluminiumMaterialDecorator" -> AluminiumAdjustWeight(m)
    [] decorator = "CarbonFiberMaterialDecorator" -> CarbonFiberAdjustWeight(m)

adjust_price(decorator, m) ==
  CASE decorator = "WoodMaterialDecorator" -> WoodAdjustPrice(m)
    [] decorator = "AluminiumMaterialDecorator" -> AluminiumAdjustPrice(m)
    [] decorator = "CarbonFiberMaterialDecorator" -> CarbonFiberAdjustPrice(m)

adjust_power_consumption(decorator, m) ==
  CASE decorator = "WoodMaterialDecorator" -> WoodAdjustPowerConsumption(m)
    [] decorator = "AluminiumMaterialDecorator" -> AluminiumAdjustPowerConsumption(m)
    [] decorator = "CarbonFiberMaterialDecorator" -> CarbonFiberAdjustPowerConsumption(m)

\* the decoration with the lookup of line 329 made on the material as given,
\* without lower()
Decorate_case_sensitive(machine, material) ==
  LET decorator == DecoratorFor(material)
  IN  IF decorator # None
        THEN adjust_power_consumption(decorator[1],
               adjust_price(decorator[1], adjust_weight(decorator[1], machine)))
        ELSE machine

\* the decoration with decorators that outlive the call: every machine made
\* earlier with the same decorator adds one more round of adjustments
RECURSIVE Adjusted(_, _, _)
Adjusted(decorator, m, rounds) ==
  IF rounds = 0
    THEN m
    ELSE Adjusted(decorator,
           adjust_power_consumption(decorator,
             adjust_price(decorator, adjust_weight(decorator, m))),
           rounds - 1)

Decorate_compounding(machine, material) ==
  LET decorator == DecoratorFor(lower(material))
      earlier == { i \in DOMAIN machines :
                     DecoratorFor(lower(machines[i].material)) = decorator }
  IN  IF decorator # None
        THEN Adjusted(decorator[1], machine, 1 + Cardinality(earlier))
        ELSE machine

\* the decoration of create_machine: weight, then price, then power
Decorate(machine, material) ==
  LET decorator == DecoratorFor(lower(material))
  IN  IF decorator # None
        THEN adjust_power_consumption(decorator[1],
               adjust_price(decorator[1], adjust_weight(decorator[1], machine)))
        ELSE machine

\* create_machine falling back to the classical template for an unknown type
FactoryCreate_default_type(machine_type, material, color) ==
  IF machine_type \notin MachineTypes
    THEN Some(Decorate(ClassicalArcadeMachine(material, color), material))
    ELSE Some(Decorate(TemplateCreate(machine_type, material, color), material))

\* MachineFactory.create_machine: the machine returned, or None
FactoryCreate(machine_type, material, color) ==
  IF machine_type \notin MachineTypes
    THEN None
    ELSE Some(Decorate(TemplateCreate(machine_type, material, color), material))

MachineIds == DOMAIN machines
GameIds == DOMAIN games

\* the number of entries of all videogames lists together
Attached == LET n[i \in 0..Len(machines)] ==
                  IF i = 0 THEN 0 ELSE n[i - 1] + Len(machines[i].videogames)
            IN  n[Len(machines)]

\* no create_machine call is in progress
NoFrame ==
  [pc |-> "idle", machine_type |-> "", material |-> << >>, color |-> "",
   machine |-> None, decorator |-> None]

\* menu.main is about to display the menu for the first time
MenuStart ==
  [pc |-> "display_menu", entered |-> None, choice |-> None,
   raised |-> None, printed |-> None, ran |-> << >>]

Init ==
  /\ frame = NoFrame
  /\ menu = MenuStart
  /\ machines = << >>
  /\ games = << >>
  /\ catalog = << >>
  /\ call = [op |-> "CatalogManager", args |-> << >>]
  /\ result = None
  /\ factory_log = << >>
  /\ game_log = << >>

(***************************************************************************)
(* Inputs.                                                                 *)
(***************************************************************************)
Aluminium_ == << "A", "l", "u", "m", "i", "n", "i", "u", "m" >>
CARBON_FIBER_ == << "C", "A", "R", "B", "O", "N", " ", "F", "I", "B", "E", "R" >>
Wood_ == << "W", "o", "o", "d" >>
steel_ == << "s", "t", "e", "e", "l" >>

\* machine_type arguments: the five keys, a string that is no key, and a key
\* in another letter case
TypeArgs == MachineTypes \cup { "Unknown", "racing" }
MaterialArgs == { wood, Wood_, Aluminium_, CARBON_FIBER_, steel_ }
ColorArgs == { "Red" }

\* the factory calls of SpecMachine
FactoryArgs ==
  { << "Racing", Aluminium_, "Red" >>,
    << "ClassicalArcade", steel_, "Blue" >>,
    << "Shooting", wood, "Red" >>,
    << "racing", wood, "Blue" >> }

\* the factory calls of Spec
CatalogFactoryArgs ==
  { << "Racing", Aluminium_, "Red" >>,
    << "ClassicalArcade", steel_, "Blue" >> }

(***************************************************************************)
(* MachineFactory.create_machine(machine_type, material, color)            *)
(***************************************************************************)
CreateMachine(machine_type, material, color) ==
  /\ Len(machines) < MaxMachines
  /\ Len(machines) + Len(games) < MaxObjects
  /\ LET r == FactoryCreate(machine_type, material, color)
     IN  IF r = None
           THEN /\ result' = None
                /\ UNCHANGED << machines, factory_log >>
           ELSE /\ machines' = Append(machines, r[1])
                /\ result' = Some(Len(machines) + 1)
                /\ factory_log' = Append(factory_log,
                     [machine_type |-> machine_type, material |-> material,
                      color |-> color, returned |-> r[1]])
  /\ call' = [op |-> "create_machine",
              args |-> << machine_type, material, color >>]
  /\ UNCHANGED << games, catalog, game_log, frame, menu >>

(***************************************************************************)
(* Videogame(name, ..., price, year, is_high_definition)                   *)
(***************************************************************************)
NewVideogame(name, storytelling_creator, graphics_creator, category, price, year, is_high_definition) ==
  /\ Len(machines) + Len(games) < MaxObjects
  /\ games' = Append(games,
       Videogame(name, storytelling_creator, graphics_creator, category,
                 price, year, is_high_definition))
  /\ game_log' = Append(game_log, [price |-> price])
  /\ call' = [op |-> "Videogame",
              args |-> << name, price, is_high_definition >>]
  /\ result' = Some(Len(games) + 1)
  /\ UNCHANGED << machines, catalog, factory_log, frame, menu >>

(***************************************************************************)
(* machines[m].add_videogame(games[g])                                     *)
(***************************************************************************)
\* a variant in which all machines share one videogames list
add_videogame_call_shared_list(m, g) ==
  /\ machines' =
       [i \in DOMAIN machines |->
          IF i = m THEN add_videogame(machines[i], g, games[g])
          ELSE [machines[i] EXCEPT !.videogames = Append(@, g)]]
  /\ call' = [op |-> "add_videogame", args |-> << m, g >>]
  /\ result' = None
  /\ UNCHANGED << games, catalog, factory_log, game_log, frame, menu >>

add_videogame_call(m, g) ==
  /\ machines' = [machines EXCEPT ![m] = add_videogame(@, g, games[g])]
  /\ call' = [op |-> "add_videogame", args |-> << m, g >>]
  /\ result' = None
  /\ UNCHANGED << games, catalog, factory_log, game_log, frame, menu >>

\* the call, while the lists of all machines have room
AddVideogame(m, g) == Attached < MaxAttached /\ add_videogame_call(m, g)

(***************************************************************************)
(* machines[m].remove_videogame(games[g])                                  *)
(***************************************************************************)
RemoveVideogame(m, g) ==
  /\ machines' = [machines EXCEPT ![m] = remove_videogame(@, g, games[g])]
  /\ call' = [op |-> "remove_videogame", args |-> << m, g >>,
              present |-> g \in Range(machines[m].videogames)]
  /\ result' = None
  /\ UNCHANGED << games, catalog, factory_log, game_log, frame, menu >>

(***************************************************************************)
(* CatalogManager.register_machine(machines[m])                            *)
(***************************************************************************)
\* register_machine refusing a machine that is already in the store
register_machine_unique(store, m) ==
  IF m \in Range(store) THEN store ELSE Append(store, m)

\* self.machines.append(machine)
register_machine(store, m) == Append(store, m)

RegisterMachine(m) ==
  /\ Len(catalog) < MaxCatalog
  /\ catalog' = register_machine(catalog, m)
  /\ call' = [op |-> "register_machine", args |-> << m >>]
  /\ result' = None
  /\ UNCHANGED << machines, games, factory_log, game_log, frame, menu >>

(***************************************************************************)
(* The six searches.  Each is the list comprehension                       *)
(* [m for m in self.machines if ...] over the store.                       *)
(***************************************************************************)
\* a variant that counts the different games of a machine
search_by_videogame_count_distinct(count) ==
  SelectSeq(catalog, LAMBDA m :
    Cardinality(Range(machines[m].videogames)) = count)

search_by_videogame_count(count) ==
  SelectSeq(catalog, LAMBDA m : Len(machines[m].videogames) = count)

\* a variant that compares the material strings as they are written
search_by_material_case_sensitive(material) ==
  SelectSeq(catalog, LAMBDA m : machines[m].material = material)

search_by_material(material) ==
  SelectSeq(catalog, LAMBDA m : lower(machines[m].material) = lower(material))

search_by_videogame_name(name) ==
  SelectSeq(catalog, LAMBDA m :
    \E i \in DOMAIN machines[m].videogames :
      lower(games[machines[m].videogames[i]].name) = lower(name))

\* a variant that puts its bounds in order before it filters
search_by_price_range_ordered_bounds(min_price, max_price) ==
  SelectSeq(catalog, LAMBDA m :
    \/ /\ min_price <= calculate_total_price(machines[m])
       /\ calculate_total_price(machines[m]) <= max_price
    \/ /\ max_price <= calculate_total_price(machines[m])
       /\ calculate_total_price(machines[m]) <= min_price)

search_by_price_range(min_price, max_price) ==
  SelectSeq(catalog, LAMBDA m :
    /\ min_price <= calculate_total_price(machines[m])
    /\ calculate_total_price(machines[m]) <= max_price)

\* a variant with exclusive bounds
search_by_weight_range_exclusive(min_weight, max_weight) ==
  SelectSeq(catalog, LAMBDA m :
    min_weight < machines[m].weight /\ machines[m].weight < max_weight)

search_by_weight_range(min_weight, max_weight) ==
  SelectSeq(catalog, LAMBDA m :
    min_weight <= machines[m].weight /\ machines[m].weight <= max_weight)

search_by_power_consumption_range(min_power, max_power) ==
  SelectSeq(catalog, LAMBDA m :
    /\ min_power <= machines[m].power_consumption
    /\ machines[m].power_consumption <= max_power)

\* a search returns its list and touches nothing else
Returns(op, args, list) ==
  /\ call' = [op |-> op, args |-> args]
  /\ result' = list
  /\ UNCHANGED << machines, games, catalog, factory_log, game_log, frame,
                  menu >>

SearchByVideogameCount(count) ==
  Returns("search_by_videogame_count", << count >>,
          search_by_videogame_count(count))

SearchByMaterial(material) ==
  Returns("search_by_material", << material >>, search_by_material(material))

SearchByVideogameName(name) ==
  Returns("search_by_videogame_name", << name >>,
          search_by_videogame_name(name))

SearchByPriceRange(min_price, max_price) ==
  Returns("search_by_price_range", << min_price, max_price >>,
          search_by_price_range(min_price, max_price))

\* search_by_weight_range keeping its result as the store
SearchByWeightRange_filters_store(min_weight, max_weight) ==
  /\ call' = [op |-> "search_by_weight_range",
              args |-> << min_weight, max_weight >>]
  /\ result' = search_by_weight_range(min_weight, max_weight)
  /\ catalog' = search_by_weight_range(min_weight, max_weight)
  /\ UNCHANGED << machines, games, factory_log, game_log, frame, menu >>

SearchByWeightRange(min_weight, max_weight) ==
  Returns("search_by_weight_range", << min_weight, max_weight >>,
          search_by_weight_range(min_weight, max_weight))

SearchByPowerConsumptionRange(min_power, max_power) ==
  Returns("search_by_power_consumption_range", << min_power, max_power >>,
          search_by_power_consumption_range(min_power, max_power))

SearchOps ==
  { "search_by_videogame_count", "search_by_material",
    "search_by_videogame_name", "search_by_price_range",
    "search_by_weight_range", "search_by_power_consumption_range" }

(***************************************************************************)
(* More inputs.                                                            *)
(***************************************************************************)
Pong_ == << "P", "o", "n", "g" >>
TETRIS_ == << "T", "E", "T", "R", "I", "S" >>
pong == << "p", "o", "n", "g" >>
ALUMINIUM_ == << "A", "L", "U", "M", "I", "N", "I", "U", "M" >>

\* (name, price, is_high_definition) of the videogames of SpecMachine
GameArgs ==
  { << Pong_, Units(50), TRUE >>,
    << TETRIS_, Units(20), FALSE >>,
    << pong, Units(55), FALSE >> }

\* and of Spec
CatalogGameArgs == { << Pong_, Units(50), TRUE >> }

CountArgs == { 1 }
SearchMaterialArgs == { ALUMINIUM_ }
SearchNameArgs == { pong }
PriceRangeArgs == { << Units(6600), Units(6655) >> }
WeightRangeArgs == { << Units(150), Units(200) >> }
PowerRangeArgs == { << Units(500), Units(1200) >> }

(***************************************************************************)
(* Specifications.                                                         *)
(*   SpecFactory  the factory alone, over every machine type and material  *)
(*   SpecMachine  machines and videogames: construction, add, remove       *)
(*   Spec         the whole catalog                                        *)
(***************************************************************************)
NextFactory ==
  \E machine_type \in TypeArgs, material \in MaterialArgs, color \in ColorArgs :
    CreateMachine(machine_type, material, color)

SpecFactory == Init /\ [][NextFactory]_vars

NextMachine ==
  \/ \E a \in FactoryArgs : CreateMachine(a[1], a[2], a[3])
  \/ \E a \in GameArgs :
       NewVideogame(a[1], "Story", "Graphics", "Arcade", a[2], 1972, a[3])
  \/ \E m \in MachineIds, g \in GameIds : AddVideogame(m, g)
  \/ \E m \in MachineIds, g \in GameIds : RemoveVideogame(m, g)

SpecMachine == Init /\ [][NextMachine]_vars

Next ==
  \/ \E a \in CatalogFactoryArgs : CreateMachine(a[1], a[2], a[3])
  \/ \E a \in CatalogGameArgs :
       NewVideogame(a[1], "Story", "Graphics", "Arcade", a[2], 1972, a[3])
  \/ \E m \in MachineIds, g \in GameIds : AddVideogame(m, g)
  \/ \E m \in MachineIds, g \in GameIds : RemoveVideogame(m, g)
  \/ \E m \in MachineIds : RegisterMachine(m)
  \/ \E count \in CountArgs : SearchByVideogameCount(count)
  \/ \E material \in SearchMaterialArgs : SearchByMaterial(material)
  \/ \E name \in SearchNameArgs : SearchByVideogameName(name)
  \/ \E r \in PriceRangeArgs : SearchByPriceRange(r[1], r[2])
  \/ \E r \in WeightRangeArgs : SearchByWeightRange(r[1], r[2])
  \/ \E r \in PowerRangeArgs : SearchByPowerConsumptionRange(r[1], r[2])

Spec == Init /\ [][Next]_vars

(***************************************************************************)
(* Properties.                                                             *)
(***************************************************************************)
\* the sum of the stored prices of the games of a list, one term per entry
RECURSIVE SumPrices(_)
SumPrices(list) ==
  IF list = << >> THEN 0 ELSE games[Head(list)].price + SumPrices(Tail(list))

\* the price factor of a material as the specification tabulates it, in
\* percent; 100 when no adjustment applies
PriceFactorPct(material) ==
  CASE lower(material) = wood -> 95
    [] lower(material) = aluminium -> 110
    [] lower(material) = carbon_fiber -> 120
    [] OTHER -> 100

\* C1: for every machine the factory returned, after any sequence of
\* add_videogame / remove_videogame calls, calculate_total_price() is the base
\* price the machine had when the factory returned it (the template's base
\* price times the material's price factor, the plain template price when no
\* adjustment applies) plus the prices of the games now in its videogames
\* list, one term per entry.
C1_TotalPriceIsBasePlusGames ==
  \A m \in MachineIds :
    LET made == factory_log[m]
        template == TemplateCreate(made.machine_type, made.material, made.color)
    IN  /\ made.returned.base_price =
             Pct(template.base_price, PriceFactorPct(made.material))
        /\ calculate_total_price(machines[m]) =
             made.returned.base_price + SumPrices(machines[m].videogames)

\* a game was removed from a decorated machine that still holds that game and
\* another entry
C1_Witness ==
  /\ call.op = "remove_videogame"
  /\ call.present
  /\ PriceFactorPct(machines[call.args[1]].material) # 100
  /\ machines[call.args[1]].videogames # << >>

\* C5: remove_videogame(game) on a machine whose videogames list does not
\* hold that game is a no-op: the list, base_price and everything else about
\* the machines and the games stay as they were.
C5_RemoveAbsentIsNoOp ==
  [][(/\ call'.op = "remove_videogame"
      /\ call'.args[2] \notin Range(machines[call'.args[1]].videogames))
       => /\ machines' = machines
          /\ games' = games
          /\ result' = None]_vars

\* a game was removed from a machine that did not hold it, while the machine
\* held another game
C5_Witness ==
  /\ call.op = "remove_videogame"
  /\ ~call.present
  /\ machines[call.args[1]].videogames # << >>

\* C6: a videogame's stored price is the price given to its constructor times
\* 1.10, once, when it is high definition, and the price given otherwise, in
\* every state: reads, additions and removals leave it as constructed.
C6_PriceMarkedUpOnceForHd ==
  \A g \in GameIds :
    games[g].price =
      IF games[g].is_high_definition
        THEN (game_log[g].price * 110) \div 100
        ELSE game_log[g].price

\* a high-definition game and another game were added to a machine and the
\* high-definition one removed again
C6_Witness ==
  /\ call.op = "remove_videogame"
  /\ call.present
  /\ games[call.args[2]].is_high_definition
  /\ games[call.args[2]].price = Units(55)
  /\ \E m \in MachineIds :
       \E i \in DOMAIN machines[m].videogames :
         ~games[machines[m].videogames[i]].is_high_definition

\* C7: add_videogame(game) appends the game at the end of the machine's list
\* and raises base_price by game.price, whether or not the list holds the game
\* already, and changes nothing else.
C7_AddAppendsAndCharges ==
  [][(call'.op = "add_videogame" /\ vars' # vars)
       => LET m == call'.args[1]
              g == call'.args[2]
          IN  /\ machines'[m].videogames = Append(machines[m].videogames, g)
              /\ machines'[m].base_price = machines[m].base_price + games[g].price
              /\ DOMAIN machines' = DOMAIN machines
              /\ \A i \in DOMAIN machines : i # m => machines'[i] = machines[i]
              /\ [machines'[m] EXCEPT !.videogames = << >>, !.base_price = 0] =
                   [machines[m] EXCEPT !.videogames = << >>, !.base_price = 0]
              /\ games' = games]_vars

\* the same game was added twice to a machine: two entries, twice the price
C7_Witness ==
  /\ call.op = "add_videogame"
  /\ LET m == call.args[1]
         g == call.args[2]
     IN  /\ machines[m].videogames = << g, g >>
         /\ machines[m].base_price =
              factory_log[m].returned.base_price + 2 * games[g].price

\* the fields of a machine the claim of determinism names
Fields(machine) ==
  << machine.material, machine.dimensions, machine.weight,
     machine.power_consumption, machine.memory, machine.processors,
     machine.base_price, machine.color, machine.videogames >>

MaterialFactorsPct(material) ==
  CASE lower(material) = wood -> [weight |-> 110, price |-> 95, power |-> 115]
    [] lower(material) = aluminium -> [weight |-> 95, price |-> 110, power |-> 100]
    [] lower(material) = carbon_fiber -> [weight |-> 85, price |-> 120, power |-> 90]

RecognizedMaterial(material) ==
  lower(material) \in { wood, aluminium, carbon_fiber }

\* C2: for each machine type and each material that is "wood", "aluminium" or
\* "carbon fiber" in any letter case, the machine the factory returns has the
\* template's weight, base price and power consumption, each multiplied once
\* by the material's factor; ("Racing", "Aluminium", "Red") gives weight 171,
\* base price 6600 and power consumption 1200.
C2_RecognizedMaterialAdjustsOnce ==
  \A m \in MachineIds :
    LET made == factory_log[m]
        template == TemplateCreate(made.machine_type, made.material, made.color)
        factors == MaterialFactorsPct(made.material)
    IN  RecognizedMaterial(made.material)
          => /\ made.returned.weight = (template.weight * factors.weight) \div 100
             /\ made.returned.base_price =
                  (template.base_price * factors.price) \div 100
             /\ made.returned.power_consumption =
                  (template.power_consumption * factors.power) \div 100
             /\ (made.machine_type = "Racing" /\ lower(made.material) = aluminium)
                  => /\ made.returned.weight = Units(171)
                     /\ made.returned.base_price = Units(6600)
                     /\ made.returned.power_consumption = Units(1200)

\* the factory has just returned the ("Racing", "Aluminium", "Red") machine
C2_Witness ==
  /\ call = [op |-> "create_machine", args |-> << "Racing", Aluminium_, "Red" >>]
  /\ result # None
  /\ machines[result[1]].weight = Units(171)
  /\ machines[result[1]].base_price = Units(6600)
  /\ machines[result[1]].power_consumption = Units(1200)

\* C3: a factory call whose machine_type is not, letter for letter, one of the
\* five type names returns None and constructs or changes no machine.
C3_UnknownTypeReturnsNone ==
  [][(/\ call'.op = "create_machine"
      /\ call'.args[1] \notin { "DanceRevolution", "ClassicalArcade", "Shooting",
                                "Racing", "VirtualReality" })
       => /\ result' = None
          /\ machines' = machines
          /\ factory_log' = factory_log]_vars

\* after a machine was made, the factory was called with "racing" and a
\* recognized material and returned None
C3_Witness ==
  /\ call.op = "create_machine"
  /\ call.args[1] = "racing"
  /\ RecognizedMaterial(call.args[2])
  /\ result = None
  /\ machines # << >>

\* C4: a factory call with a valid machine type and a material that is none
\* of "wood", "aluminium", "carbon fiber" in lower case returns a machine with
\* the template's weight, base price and power consumption unadjusted and with
\* the material string as given.
C4_UnknownMaterialUnadjusted ==
  /\ \A m \in MachineIds :
       LET made == factory_log[m]
           template == TemplateCreate(made.machine_type, made.material, made.color)
       IN  ~RecognizedMaterial(made.material)
             => /\ made.returned.weight = template.weight
                /\ made.returned.base_price = template.base_price
                /\ made.returned.power_consumption = template.power_consumption
                /\ made.returned.material = made.material
  /\ (/\ call.op = "create_machine"
      /\ call.args[1] \in MachineTypes
      /\ ~RecognizedMaterial(call.args[2]))
       => /\ result # None
          /\ machines[result[1]] = factory_log[result[1]].returned
          /\ factory_log[result[1]].material = call.args[2]

\* the factory has just returned a "steel" virtual-reality machine
C4_Witness ==
  /\ call = [op |-> "create_machine",
             args |-> << "VirtualReality", steel_, "Red" >>]
  /\ result # None
  /\ machines[result[1]].material = steel_
  /\ machines[result[1]].weight = Units(220)
  /\ machines[result[1]].base_price = Units(8000)
  /\ machines[result[1]].power_consumption = Units(1500)

\* the number of entries of a list that are x
Occurrences(list, x) == Cardinality({ i \in DOMAIN list : list[i] = x })

\* C9: register_machine appends the machine at the end of the store, whether
\* or not the store holds it already, and nothing else changes the store, so
\* the store is the registered machines in registration order; a search
\* returns a machine it matches once per entry the machine has in the store.
C9_RegisterAppends ==
  [][/\ IF call'.op = "register_machine" /\ vars' # vars
          THEN catalog' = Append(catalog, call'.args[1])
          ELSE catalog' = catalog
     /\ call'.op \in SearchOps
          => \A m \in Range(catalog') :
               Occurrences(result', m) \in { 0, Occurrences(catalog', m) }]_vars

\* a machine registered twice is returned twice by a search
C9_Witness ==
  /\ call.op \in SearchOps
  /\ \E m \in MachineIds : catalog = << m, m >> /\ result = << m, m >>

\* C10: a search changes neither the store nor any machine or videogame.
C10_SearchesAreReadOnly ==
  [][call'.op \in SearchOps
       => /\ catalog' = catalog
          /\ machines' = machines
          /\ games' = games]_vars

\* a search over a store of two machines, one of them holding a game, returned
\* one of the two
C10_Witness ==
  /\ call.op \in SearchOps
  /\ Len(catalog) = 2
  /\ Len(result) = 1
  /\ \E i \in DOMAIN catalog : machines[catalog[i]].videogames # << >>


(***************************************************************************)
(* The command-line front end: create_machine(factory, catalog) reads a    *)
(* 1-based type number, a 1-based material number and a colour, asks the   *)
(* factory for the machine and registers what it gets.                     *)
(***************************************************************************)
MaxRegistered == 3

machine_types ==
  << "DanceRevolution", "ClassicalArcade", "Shooting", "Racing",
     "VirtualReality" >>

materials == << wood, aluminium, carbon_fiber >>

CliCreateMachine(type_input, material_input, color) ==
  /\ Len(catalog) < MaxRegistered
  /\ Len(machines) < MaxRegistered
  /\ LET type_choice == type_input - 1
         material_choice == material_input - 1
     IN  IF \/ type_choice < 0 \/ type_choice >= Len(machine_types)
            \/ material_choice < 0 \/ material_choice >= Len(materials)
           THEN /\ result' = None
                /\ UNCHANGED << machines, factory_log, catalog >>
           ELSE LET machine_type == machine_types[type_choice + 1]
                    material == materials[material_choice + 1]
                    r == FactoryCreate(machine_type, material, color)
                IN  IF r = None
                      THEN /\ result' = None
                           /\ UNCHANGED << machines, factory_log, catalog >>
                      ELSE /\ machines' = Append(machines, r[1])
                           /\ factory_log' = Append(factory_log,
                                [machine_type |-> machine_type,
                                 material |-> material,
                                 color |-> color, returned |-> r[1]])
                           /\ catalog' =
                                register_machine(catalog, Len(machines) + 1)
                           /\ result' = Some(Len(machines) + 1)
  /\ call' = [op |-> "cli.create_machine",
              args |-> << type_input, material_input, color >>]
  /\ UNCHANGED << games, game_log, frame, menu >>

\* what is typed at the prompts: a type number, a material number, a colour
CliCreateArgs ==
  { << 2, 2, "Red" >>, << 4, 2, "Red" >>, << 5, 1, "Blue" >>,
    << 0, 1, "Red" >>, << 4, 4, "Red" >> }

CliCountArgs == { 0, 1 }
CliMaterialArgs == { ALUMINIUM_, steel_ }
CliNameArgs == { pong }
CliPriceRangeArgs ==
  { << Units(3300), Units(6600) >>, << Units(7000), Units(6000) >> }
CliWeightRangeArgs ==
  { << Units(150), Units(200) >>, << Units(171), Units(171) >>,
    << Units(200), Units(150) >> }
CliPowerRangeArgs ==
  { << Units(1000), Units(1500) >>, << Units(1200), Units(1200) >>,
    << Units(1500), Units(1000) >> }

NextCli ==
  \/ \E a \in CliCreateArgs : CliCreateMachine(a[1], a[2], a[3])
  \/ \E count \in CliCountArgs : SearchByVideogameCount(count)
  \/ \E material \in CliMaterialArgs : SearchByMaterial(material)
  \/ \E name \in CliNameArgs : SearchByVideogameName(name)
  \/ \E r \in CliPriceRangeArgs : SearchByPriceRange(r[1], r[2])
  \/ \E r \in CliWeightRangeArgs : SearchByWeightRange(r[1], r[2])
  \/ \E r \in CliPowerRangeArgs : SearchByPowerConsumptionRange(r[1], r[2])

SpecCli == Init /\ [][NextCli]_vars

\* the entries of a store that belong to a set of machines, in store order
RECURSIVE Matching(_, _)
Matching(store, wanted) ==
  IF store = << >> THEN << >>
  ELSE IF Head(store) \in wanted
         THEN << Head(store) >> \o Matching(Tail(store), wanted)
         ELSE Matching(Tail(store), wanted)

\* C11: search_by_weight_range(min, max) and
\* search_by_power_consumption_range(min, max) return exactly the registered
\* machines whose weight, respectively power consumption, v satisfies
\* min <= v <= max, both bounds inclusive, in store order.
C11_RangeSearchesAreInclusive ==
  /\ call.op = "search_by_weight_range"
       => result = Matching(catalog,
            { m \in MachineIds : /\ call.args[1] <= machines[m].weight
                                 /\ machines[m].weight <= call.args[2] })
  /\ call.op = "search_by_power_consumption_range"
       => result = Matching(catalog,
            { m \in MachineIds :
                /\ call.args[1] <= machines[m].power_consumption
                /\ machines[m].power_consumption <= call.args[2] })

\* three machines of weights 95, 171 and 242 are registered and the search
\* for the weights from 171 to 171 returned the one of weight 171 alone
C11_Witness ==
  /\ call.op = "search_by_weight_range"
  /\ call.args = << Units(171), Units(171) >>
  /\ Len(catalog) = 3
  /\ { machines[catalog[i]].weight : i \in DOMAIN catalog } =
       { Units(95), Units(171), Units(242) }
  /\ Len(result) = 1
  /\ machines[result[1]].weight = Units(171)


\* two characters are the same letter in either case, or the same character
SameIgnoringCase(a, b) ==
  \/ a = b
  \/ \E i \in DOMAIN UpperLetters :
       { a, b } = { UpperLetters[i], LowerLetters[i] }

\* two strings are equal when the case of their letters is ignored
EqualIgnoringCase(s, t) ==
  /\ Len(s) = Len(t)
  /\ \A i \in 1..Len(s) : SameIgnoringCase(s[i], t[i])

RangeOps ==
  { "search_by_price_range", "search_by_weight_range",
    "search_by_power_consumption_range" }

\* machine m meets the criterion of the search recorded in call, as the
\* specification words the six criteria
Meets(m) ==
  CASE call.op = "search_by_videogame_count" ->
         Len(machines[m].videogames) = call.args[1]
    [] call.op = "search_by_material" ->
         EqualIgnoringCase(machines[m].material, call.args[1])
    [] call.op = "search_by_videogame_name" ->
         \E i \in DOMAIN machines[m].videogames :
           EqualIgnoringCase(games[machines[m].videogames[i]].name,
                             call.args[1])
    [] call.op = "search_by_price_range" ->
         /\ call.args[1] <= machines[m].base_price
         /\ machines[m].base_price <= call.args[2]
    [] call.op = "search_by_weight_range" ->
         /\ call.args[1] <= machines[m].weight
         /\ machines[m].weight <= call.args[2]
    [] call.op = "search_by_power_consumption_range" ->
         /\ call.args[1] <= machines[m].power_consumption
         /\ machines[m].power_consumption <= call.args[2]

\* C12: each of the three range searches called with min > max returns the
\* empty sequence whatever the store holds, and every search returns the
\* empty sequence when no registered machine meets its criterion, the empty
\* store included; a search always ends with a list, never with an error.
C12_NoMatchIsEmptyList ==
  call.op \in SearchOps =>
    /\ result \in Seq(MachineIds)
    /\ (call.op \in RangeOps /\ call.args[1] > call.args[2])
         => result = << >>
    /\ (\A i \in DOMAIN catalog : ~Meets(catalog[i])) => result = << >>

\* a price search with min > max returned nothing although a registered
\* machine's price lies between the two bounds
C12_Witness ==
  /\ call.op = "search_by_price_range"
  /\ call.args[1] > call.args[2]
  /\ \E i \in DOMAIN catalog :
       /\ call.args[2] <= machines[catalog[i]].base_price
       /\ machines[catalog[i]].base_price <= call.args[1]
  /\ result = << >>


(***************************************************************************)
(* Lookups by material and by game name in a catalog whose machines gain   *)
(* and lose games.                                                         *)
(***************************************************************************)
STEEL_ == << "S", "T", "E", "E", "L" >>
alumin == << "a", "l", "u", "m", "i", "n" >>
pon == << "p", "o", "n" >>

LookupMaterialArgs == { ALUMINIUM_, STEEL_, alumin }
LookupNameArgs == { pong, pon }

NextLookup ==
  \/ \E a \in CatalogFactoryArgs : CreateMachine(a[1], a[2], a[3])
  \/ \E a \in CatalogGameArgs :
       NewVideogame(a[1], "Story", "Graphics", "Arcade", a[2], 1972, a[3])
  \/ \E m \in MachineIds, g \in GameIds : AddVideogame(m, g)
  \/ \E m \in MachineIds, g \in GameIds : RemoveVideogame(m, g)
  \/ \E m \in MachineIds : RegisterMachine(m)
  \/ \E material \in LookupMaterialArgs : SearchByMaterial(material)
  \/ \E name \in LookupNameArgs : SearchByVideogameName(name)

SpecLookup == Init /\ [][NextLookup]_vars

(***************************************************************************)
(* Lookups by game count and by total price in a catalog of machines of    *)
(* one kind that gain and lose games.                                      *)
(***************************************************************************)
TallyFactoryArgs == { << "Racing", Aluminium_, "Red" >> }
TallyCountArgs == { 0, 1 }
TallyPriceRangeArgs == { << Units(6655), Units(6700) >> }

NextTally ==
  \/ \E a \in TallyFactoryArgs : CreateMachine(a[1], a[2], a[3])
  \/ \E a \in CatalogGameArgs :
       NewVideogame(a[1], "Story", "Graphics", "Arcade", a[2], 1972, a[3])
  \/ \E m \in MachineIds, g \in GameIds : AddVideogame(m, g)
  \/ \E m \in MachineIds, g \in GameIds : RemoveVideogame(m, g)
  \/ \E m \in MachineIds : RegisterMachine(m)
  \/ \E count \in TallyCountArgs : SearchByVideogameCount(count)
  \/ \E r \in TallyPriceRangeArgs : SearchByPriceRange(r[1], r[2])

SpecTally == Init /\ [][NextTally]_vars

\* C13: search_by_videogame_count(n) returns exactly the registered machines
\* whose videogames list has length n, a game attached twice counting twice,
\* in store order; so a machine is returned for 0 while nothing is attached
\* to it and not while a game is.
C13_CountSearchUsesListLength ==
  call.op = "search_by_videogame_count" =>
    result = Matching(catalog,
      { m \in MachineIds : Len(machines[m].videogames) = call.args[1] })

\* the search for 0 returned a registered machine that has no game and left
\* out a registered machine that has one
C13_Witness ==
  /\ call.op = "search_by_videogame_count"
  /\ call.args = << 0 >>
  /\ \E i \in DOMAIN catalog :
       /\ machines[catalog[i]].videogames = << >>
       /\ catalog[i] \in Range(result)
  /\ \E i \in DOMAIN catalog :
       /\ Len(machines[catalog[i]].videogames) = 1
       /\ catalog[i] \notin Range(result)


\* C14: search_by_material(s) returns exactly the registered machines whose
\* material string equals s when case is ignored, a material no decorator
\* recognizes included; search_by_videogame_name(s) returns exactly the
\* registered machines with at least one attached game whose name equals s
\* when case is ignored; both in store order, and a proper prefix of a
\* material or of a name finds nothing.
C14_TextSearchesIgnoreCase ==
  /\ call.op = "search_by_material"
       => result = Matching(catalog,
            { m \in MachineIds :
                EqualIgnoringCase(machines[m].material, call.args[1]) })
  /\ call.op = "search_by_videogame_name"
       => result = Matching(catalog,
            { m \in MachineIds :
                \E i \in DOMAIN machines[m].videogames :
                  EqualIgnoringCase(games[machines[m].videogames[i]].name,
                                    call.args[1]) })

\* the search for "STEEL" returned a registered machine made of "steel", a
\* material without a decorator, and left out a registered aluminium machine
C14_Witness ==
  /\ call.op = "search_by_material"
  /\ call.args = << STEEL_ >>
  /\ result # << >>
  /\ \A i \in DOMAIN result : machines[result[i]].material = steel_
  /\ \E i \in DOMAIN catalog : machines[catalog[i]].material = Aluminium_


\* the price the factory returned machine m with, plus the prices of the
\* games of a list
PriceWith(m, list) == factory_log[m].returned.base_price + SumPrices(list)

Within(r, v) == r[1] <= v /\ v <= r[2]

\* C15: search_by_price_range(min, max) returns exactly the registered
\* machines whose current total price, the price the factory returned the
\* machine with plus the prices of the games now attached, satisfies
\* min <= total <= max, in store order; and an add_videogame or
\* remove_videogame changes whether a registered machine is returned exactly
\* when it moves that machine's total into or out of [min, max].
C15_PriceSearchUsesCurrentTotal ==
  [][/\ call'.op = "search_by_price_range"
        => result' = Matching(catalog',
             { m \in DOMAIN machines' :
                 Within(call'.args, PriceWith(m, machines'[m].videogames)) })
     /\ call'.op \in { "add_videogame", "remove_videogame" }
        => \A r \in TallyPriceRangeArgs : \A m \in Range(catalog) :
             LET before == m \in Range(search_by_price_range(r[1], r[2]))
                 after == m \in Range(search_by_price_range(r[1], r[2])')
             IN  (before # after)
                   <=> (Within(r, PriceWith(m, machines[m].videogames))
                          # Within(r, PriceWith(m, machines'[m].videogames)))
    ]_vars

\* a game was detached from a registered machine and brought its total from
\* above the searched range to the range's lower bound, so that the machine
\* is among those the search returns
C15_Witness ==
  /\ call.op = "remove_videogame"
  /\ call.present
  /\ \E r \in TallyPriceRangeArgs :
       LET m == call.args[1]
           total == calculate_total_price(machines[m])
       IN  /\ m \in Range(catalog)
           /\ total = r[1]
           /\ total + games[call.args[2]].price > r[2]
           /\ m \in Range(search_by_price_range(r[1], r[2]))


(***************************************************************************)
(* One kind of machine and two kinds of game, so that two games of a kind   *)
(* are equal field by field and differ in identity only; lists of up to    *)
(* MaxListed entries.                                                      *)
(***************************************************************************)
MaxListed == 3

TwinsGameArgs ==
  { << Pong_, Units(50), TRUE >>, << TETRIS_, Units(20), FALSE >> }

NextTwins ==
  \/ \E a \in TallyFactoryArgs : CreateMachine(a[1], a[2], a[3])
  \/ \E a \in TwinsGameArgs :
       NewVideogame(a[1], "Story", "Graphics", "Arcade", a[2], 1972, a[3])
  \/ \E m \in MachineIds, g \in GameIds :
       Attached < MaxListed /\ add_videogame_call(m, g)
  \/ \E m \in MachineIds, g \in GameIds : RemoveVideogame(m, g)

SpecTwins == Init /\ [][NextTwins]_vars

\* C16: remove_videogame(game) on a machine whose list contains that very
\* instance removes the first occurrence of it and nothing else, the other
\* entries keeping their order, and takes game.price off base_price once;
\* a list that holds only other instances, equal to game field by field or
\* not, does not contain it, and the call then changes nothing.
C16_RemoveTakesFirstOccurrenceByIdentity ==
  [][call'.op = "remove_videogame" =>
       LET m == call'.args[1]
           g == call'.args[2]
           old == machines[m].videogames
           new == machines'[m].videogames
       IN  IF \E k \in DOMAIN old : old[k] = g
             THEN \E k \in DOMAIN old :
                    /\ old[k] = g
                    /\ \A j \in 1..(k - 1) : old[j] # g /\ new[j] = old[j]
                    /\ Len(new) = Len(old) - 1
                    /\ \A j \in k..Len(new) : new[j] = old[j + 1]
                    /\ machines'[m].base_price =
                         machines[m].base_price - games[g].price
             ELSE machines'[m] = machines[m]
    ]_vars

\* a game was removed from a list that held it twice; what is left is another
\* instance with the same fields followed by the game's second occurrence
C16_Witness ==
  /\ call.op = "remove_videogame"
  /\ call.present
  /\ LET list == machines[call.args[1]].videogames
         g == call.args[2]
     IN  /\ Len(list) = 2
         /\ list[1] # g
         /\ games[list[1]] = games[g]
         /\ list[2] = g


(***************************************************************************)
(* MachineFactory.create_machine followed statement by statement.  frame   *)
(* holds the call's arguments and its locals `machine` and `decorator`;    *)
(* the machine under construction enters `machines` when it is returned,   *)
(* and `call` and `result` record the call when it returns.                *)
(***************************************************************************)
\* the call is made: predefined_machines is built
FactoryCall(machine_type, material, color) ==
  /\ frame.pc = "idle"
  /\ Len(machines) < MaxMachines
  /\ Len(machines) + Len(games) < MaxObjects
  /\ frame' = [NoFrame EXCEPT !.pc = "get_creator",
                              !.machine_type = machine_type,
                              !.material = material,
                              !.color = color]
  /\ UNCHANGED << machines, games, catalog, call, result, factory_log,
                  game_log, menu >>

\* machine_creator = predefined_machines.get(machine_type); return None
\* without it, else machine = machine_creator.create_machine(material, color)
FactoryConstruct ==
  /\ frame.pc = "get_creator"
  /\ IF frame.machine_type \notin MachineTypes
       THEN /\ frame' = NoFrame
            /\ call' = [op |-> "create_machine",
                        args |-> << frame.machine_type, frame.material,
                                    frame.color >>]
            /\ result' = None
       ELSE /\ frame' = [frame EXCEPT
                 !.pc = "get_decorator",
                 !.machine = Some(TemplateCreate(frame.machine_type,
                                                 frame.material, frame.color))]
            /\ UNCHANGED << call, result >>
  /\ UNCHANGED << machines, games, catalog, factory_log, game_log, menu >>

\* decorator = material_decorators.get(material.lower()); if decorator: ...
FactoryGetDecorator ==
  /\ frame.pc = "get_decorator"
  /\ LET decorator == DecoratorFor(lower(frame.material))
     IN  frame' = [frame EXCEPT
           !.decorator = decorator,
           !.pc = IF decorator # None THEN "adjust_weight" ELSE "return"]
  /\ UNCHANGED << machines, games, catalog, call, result, factory_log,
                  game_log, menu >>

\* a variant that goes from the weight straight to the power consumption
FactoryAdjustWeight_skipping_price ==
  /\ frame.pc = "adjust_weight"
  /\ frame' = [frame EXCEPT
       !.machine = Some(adjust_weight(frame.decorator[1], frame.machine[1])),
       !.pc = "adjust_power_consumption"]
  /\ UNCHANGED << machines, games, catalog, call, result, factory_log,
                  game_log, menu >>

\* decorated_machine.adjust_weight()
FactoryAdjustWeight ==
  /\ frame.pc = "adjust_weight"
  /\ frame' = [frame EXCEPT
       !.machine = Some(adjust_weight(frame.decorator[1], frame.machine[1])),
       !.pc = "adjust_price"]
  /\ UNCHANGED << machines, games, catalog, call, result, factory_log,
                  game_log, menu >>

\* decorated_machine.adjust_price()
FactoryAdjustPrice ==
  /\ frame.pc = "adjust_price"
  /\ frame' = [frame EXCEPT
       !.machine = Some(adjust_price(frame.decorator[1], frame.machine[1])),
       !.pc = "adjust_power_consumption"]
  /\ UNCHANGED << machines, games, catalog, call, result, factory_log,
                  game_log, menu >>

\* decorated_machine.adjust_power_consumption()
FactoryAdjustPowerConsumption ==
  /\ frame.pc = "adjust_power_consumption"
  /\ frame' = [frame EXCEPT
       !.machine = Some(adjust_power_consumption(frame.decorator[1],
                                                 frame.machine[1])),
       !.pc = "return"]
  /\ UNCHANGED << machines, games, catalog, call, result, factory_log,
                  game_log, menu >>

\* return machine
FactoryReturn ==
  /\ frame.pc = "return"
  /\ machines' = Append(machines, frame.machine[1])
  /\ factory_log' = Append(factory_log,
       [machine_type |-> frame.machine_type, material |-> frame.material,
        color |-> frame.color, returned |-> frame.machine[1]])
  /\ call' = [op |-> "create_machine",
              args |-> << frame.machine_type, frame.material, frame.color >>]
  /\ result' = Some(Len(machines) + 1)
  /\ frame' = NoFrame
  /\ UNCHANGED << games, catalog, game_log, menu >>

\* between two factory calls the caller constructs games and attaches and
\* detaches them
NextSteps ==
  \/ \E a \in FactoryArgs : FactoryCall(a[1], a[2], a[3])
  \/ FactoryConstruct
  \/ FactoryGetDecorator
  \/ FactoryAdjustWeight
  \/ FactoryAdjustPrice
  \/ FactoryAdjustPowerConsumption
  \/ FactoryReturn
  \/ /\ frame.pc = "idle"
     /\ \/ \E a \in CatalogGameArgs :
             NewVideogame(a[1], "Story", "Graphics", "Arcade", a[2], 1972,
                          a[3])
        \/ \E m \in MachineIds, g \in GameIds : AddVideogame(m, g)
        \/ \E m \in MachineIds, g \in GameIds : RemoveVideogame(m, g)

SpecSteps == Init /\ [][NextSteps]_vars


\* C17: within one create_machine call with a recognized material the three
\* adjustments are applied in the order weight, price, power consumption,
\* each once, each multiplying the value the field has at that moment and
\* touching no other field; the machine leaves its template unadjusted, the
\* lookup of the decorator changes nothing, and once the machine has been
\* returned its weight and power consumption never change and its base price
\* changes only by the price of a game.
C17_AdjustmentsInFixedOrder ==
  [][LET machine == frame.machine[1]
         adjusted == frame'.machine[1]
         factors == MaterialFactorsPct(frame.material)
     IN  /\ frame.pc = "get_creator" =>
              \/ frame' = NoFrame /\ frame.machine_type \notin MachineTypes
              \/ /\ frame'.pc = "get_decorator"
                 /\ adjusted = TemplateCreate(frame.machine_type,
                                              frame.material, frame.color)
         /\ frame.pc = "get_decorator" =>
              /\ adjusted = machine
              /\ frame'.pc = IF RecognizedMaterial(frame.material)
                               THEN "adjust_weight" ELSE "return"
         /\ frame.pc = "adjust_weight" =>
              /\ frame'.pc = "adjust_price"
              /\ adjusted =
                   [machine EXCEPT !.weight = Pct(@, factors.weight)]
         /\ frame.pc = "adjust_price" =>
              /\ frame'.pc = "adjust_power_consumption"
              /\ adjusted =
                   [machine EXCEPT !.base_price = Pct(@, factors.price)]
         /\ frame.pc = "adjust_power_consumption" =>
              /\ frame'.pc = "return"
              /\ adjusted =
                   [machine EXCEPT !.power_consumption = Pct(@, factors.power)]
         /\ frame.pc = "return" =>
              /\ frame' = NoFrame
              /\ machines' = Append(machines, machine)
         /\ \A m \in DOMAIN machines :
              /\ machines'[m].weight = machines[m].weight
              /\ machines'[m].power_consumption =
                   machines[m].power_consumption
              /\ machines'[m].base_price # machines[m].base_price =>
                   \E g \in DOMAIN games :
                     machines'[m].base_price - machines[m].base_price
                       \in { games[g].price, 0 - games[g].price }
    ]_vars

\* a call with a recognized material is about to return a machine whose
\* weight, base price and power consumption each carry their factor once
C17_Witness ==
  /\ frame.pc = "return"
  /\ RecognizedMaterial(frame.material)
  /\ LET template == TemplateCreate(frame.machine_type, frame.material,
                                    frame.color)
         factors == MaterialFactorsPct(frame.material)
         machine == frame.machine[1]
     IN  /\ machine.weight = Pct(template.weight, factors.weight)
         /\ machine.weight # template.weight
         /\ machine.base_price = Pct(template.base_price, factors.price)
         /\ machine.base_price # template.base_price
         /\ machine.power_consumption =
              Pct(template.power_consumption, factors.power)
         /\ machine.power_consumption # template.power_consumption


\* C18: every successful create_machine call returns a machine that did not
\* exist before and leaves the existing machines as they are, and an
\* add_videogame or remove_videogame on one machine changes no field of any
\* other machine: not its videogames, base_price, weight or
\* power_consumption.
C18_MachinesShareNoState ==
  [][/\ (call'.op = "create_machine" /\ result' # None)
        => /\ result'[1] \notin DOMAIN machines
           /\ result'[1] \in DOMAIN machines'
           /\ \A i \in DOMAIN machines : machines'[i] = machines[i]
     /\ call'.op \in { "add_videogame", "remove_videogame" }
        => /\ DOMAIN machines' = DOMAIN machines
           /\ \A i \in DOMAIN machines :
                i # call'.args[1] => machines'[i] = machines[i]
    ]_vars

\* two machines came from equal factory calls; a game was added to one of
\* them, and the other is as the factory returned it
C18_Witness ==
  /\ call.op = "add_videogame"
  /\ \E other \in MachineIds :
       LET m == call.args[1]
       IN  /\ other # m
           /\ factory_log[other].returned = factory_log[m].returned
           /\ machines[other] = factory_log[other].returned
           /\ machines[m].videogames = << call.args[2] >>
           /\ machines[m].base_price =
                machines[other].base_price + games[call.args[2]].price


\* C19: the material's price factor is applied to the template's base price
\* only: when the factory applies adjust_price the machine has no game and
\* its base price is the template's, and afterwards every add_videogame and
\* every effective remove_videogame moves base_price by the game's own price,
\* unscaled, whatever the machine's material.
C19_FactorAppliesToTemplatePriceOnly ==
  [][/\ frame.pc = "adjust_price" =>
          LET template == TemplateCreate(frame.machine_type, frame.material,
                                         frame.color)
          IN  /\ frame.machine[1].videogames = << >>
              /\ frame.machine[1].base_price = template.base_price
              /\ frame'.machine[1].base_price =
                   Pct(template.base_price, PriceFactorPct(frame.material))
              /\ frame'.machine[1].videogames = << >>
     /\ (frame' = frame /\ call'.op = "add_videogame") =>
          machines'[call'.args[1]].base_price =
            machines[call'.args[1]].base_price + games[call'.args[2]].price
     /\ (frame' = frame /\ call'.op = "remove_videogame" /\ call'.present) =>
          machines'[call'.args[1]].base_price =
            machines[call'.args[1]].base_price - games[call'.args[2]].price
     /\ \A m \in DOMAIN machines' :
          machines'[m].base_price =
            factory_log'[m].returned.base_price
              + SumPrices(machines'[m].videogames)
    ]_vars

\* a game of price 55 was added to an aluminium machine, whose price factor
\* is 1.1, and the machine's base price is 55 above the price the factory
\* returned it with
C19_Witness ==
  /\ frame.pc = "idle"
  /\ call.op = "add_videogame"
  /\ LET m == call.args[1]
         g == call.args[2]
     IN  /\ PriceFactorPct(machines[m].material) = 110
         /\ games[g].price = Units(55)
         /\ machines[m].base_price =
              factory_log[m].returned.base_price + Units(55)


(***************************************************************************)
(* The console menu program (src/menu.py).  Text typed at a prompt is a    *)
(* sequence of characters.                                                 *)
(***************************************************************************)
\* console actions that may run before the program is left alone
MaxRuns == 2

Digits == << "0", "1", "2", "3", "4", "5", "6", "7", "8", "9" >>

DigitValue(c) == (CHOOSE i \in DOMAIN Digits : Digits[i] = c) - 1

\* the number a non-empty sequence of digits writes
RECURSIVE Decimal(_)
Decimal(digits) ==
  IF digits = << >> THEN 0
  ELSE Decimal(SubSeq(digits, 1, Len(digits) - 1)) * 10
         + DigitValue(digits[Len(digits)])

\* int(text): the number for an optional sign followed by digits, None for
\* the ValueError on any other text of letters, digits and signs
int(text) ==
  LET signed == text # << >> /\ text[1] \in { "+", "-" }
      digits == IF signed THEN Tail(text) ELSE text
  IN  IF digits # << >> /\ \A i \in DOMAIN digits : digits[i] \in Range(Digits)
        THEN Some(IF signed /\ text[1] = "-"
                    THEN 0 - Decimal(digits) ELSE Decimal(digits))
        ELSE None

\* the keys 1..15 of execute_choice's `actions`
actions ==
  << "display_specs", "storage_options", "show_compatibility", "compare",
     "customization", "durability", "demo_info", "accessibility",
     "ai_technologies", "audio_options", "power_consumption", "security",
     "ray_tracing_performance", "network_config", "sales_guidance" >>

MenuFrame ==
  UNCHANGED << machines, games, catalog, call, result, factory_log,
               game_log, frame >>

\* main: display_menu()
DisplayMenu ==
  /\ menu.pc = "display_menu"
  /\ Len(menu.ran) < MaxRuns
  /\ menu' = [menu EXCEPT !.pc = "get_valid_choice",
                          !.printed = Some("User Menu")]
  /\ MenuFrame

\* get_valid_choice: one pass of its loop, on the text entered
GetValidChoice(text) ==
  /\ menu.pc = "get_valid_choice"
  /\ LET choice == int(text)
     IN  IF choice = None
           THEN \* except ValueError
                menu' = [menu EXCEPT
                  !.entered = Some(text),
                  !.printed =
                    Some("Error: Invalid input. Please enter a number.")]
           ELSE IF 0 <= choice[1] /\ choice[1] <= 15
                  THEN \* return choice
                       menu' = [menu EXCEPT
                         !.entered = Some(text),
                         !.choice = choice,
                         !.pc = "execute_choice"]
                  ELSE \* raise InvalidChoiceError; except InvalidChoiceError
                       menu' = [menu EXCEPT
                         !.entered = Some(text),
                         !.printed =
                           Some("Error: Choice must be between 0 and 15.")]
  /\ MenuFrame

\* a variant whose `except Exception` catches the exit as well
ExecuteChoice_swallowing_exit ==
  /\ menu.pc = "execute_choice"
  /\ LET choice == menu.choice[1]
     IN  IF choice \in DOMAIN actions
           THEN menu' = [menu EXCEPT
                  !.pc = "press_enter",
                  !.ran = Append(@, actions[choice]),
                  !.printed = Some(actions[choice])]
           ELSE menu' = [menu EXCEPT
                  !.pc = "press_enter",
                  !.printed = Some("An unexpected error occurred")]
  /\ MenuFrame

\* main: execute_choice(console, choice)
ExecuteChoice ==
  /\ menu.pc = "execute_choice"
  /\ LET choice == menu.choice[1]
     IN  IF choice = 0
           THEN \* sys.exit: SystemExit is no Exception and leaves main
                menu' = [menu EXCEPT
                  !.pc = "exited",
                  !.raised = Some("SystemExit"),
                  !.printed = Some("Executing choice")]
           ELSE IF choice \in DOMAIN actions
                  THEN menu' = [menu EXCEPT
                         !.pc = "press_enter",
                         !.ran = Append(@, actions[choice]),
                         !.printed = Some(actions[choice])]
                  ELSE \* raise InvalidChoiceError; except InvalidChoiceError
                       menu' = [menu EXCEPT
                         !.pc = "press_enter",
                         !.printed = Some("Error: Invalid choice.")]
  /\ MenuFrame

\* main: input("Press Enter to continue...")
PressEnter ==
  /\ menu.pc = "press_enter"
  /\ menu' = [menu EXCEPT !.pc = "display_menu"]
  /\ MenuFrame

\* what is typed at "Enter your choice (0-15): "
ChoiceInputs ==
  { << "0" >>, << "7" >>, << "+", "3" >>, << "1", "0" >>, << "1", "5" >>,
    << "1", "6" >>, << "-", "1" >>, << "x" >>, << >> }

NextMenu ==
  \/ DisplayMenu
  \/ \E text \in ChoiceInputs : GetValidChoice(text)
  \/ ExecuteChoice
  \/ PressEnter

SpecMenu == Init /\ [][NextMenu]_vars

\* get_valid_choice returns only integers from 0 to 15
ReturnsOnlyValidChoices ==
  menu.choice # None => menu.choice[1] \in 0..15

\* C20: get_valid_choice returns only an integer in 0..15, and when the text
\* entered is an integer outside 0..15 it raises InvalidChoiceError to its
\* caller: the function is then no longer prompting and that exception has
\* left it.
C20_ReturnsChoiceOrRaises ==
  /\ ReturnsOnlyValidChoices
  /\ (/\ menu.entered # None
      /\ int(menu.entered[1]) # None
      /\ int(menu.entered[1])[1] \notin 0..15)
       => /\ menu.raised = Some("InvalidChoiceError")
          /\ menu.pc # "get_valid_choice"


\* The statements of menu.main that wait for nothing are taken when they can
\* be: display_menu and execute_choice.  The two prompts wait for the user.
SpecMenuLive ==
  SpecMenu /\ WF_vars(DisplayMenu) /\ WF_vars(ExecuteChoice)

\* C21: menu.main displays the menu, reads a choice and executes it, again
\* and again: a choice n in 1..15 runs the console action of n once and,
\* after the "Press Enter" prompt, the menu is displayed again; choice 0
\* ends the program with the SystemExit that execute_choice raises and does
\* not catch, after which nothing more happens; and the program ends in no
\* other way.
C21_MenuLoopsUntilExit ==
  /\ [][/\ menu.pc = "display_menu" =>
             /\ menu'.pc = "get_valid_choice"
             /\ menu'.ran = menu.ran
        /\ menu.pc = "get_valid_choice" =>
             /\ menu'.pc \in { "get_valid_choice", "execute_choice" }
             /\ menu'.ran = menu.ran
        /\ (menu.pc = "execute_choice" /\ menu.choice[1] \in 1..15) =>
             /\ menu'.pc = "press_enter"
             /\ menu'.ran = Append(menu.ran, actions[menu.choice[1]])
             /\ menu'.raised = None
        /\ (menu.pc = "execute_choice" /\ menu.choice[1] = 0) =>
             /\ menu'.pc = "exited"
             /\ menu'.raised = Some("SystemExit")
             /\ menu'.ran = menu.ran
        /\ menu.pc = "press_enter" =>
             /\ menu'.pc = "display_menu"
             /\ menu'.ran = menu.ran
        /\ menu.pc # "exited"
        /\ menu'.pc = "exited" => menu.choice = Some(0)
       ]_vars
  /\ (menu.pc = "execute_choice" /\ menu.choice = Some(0))
       ~> (menu.pc = "exited")
  /\ (menu.pc = "execute_choice" /\ menu.choice # Some(0))
       ~> (menu.pc = "press_enter")

\* the program has ended on choice 0 after a console action had run and the
\* menu had been displayed again
C21_Witness ==
  /\ menu.pc = "exited"
  /\ menu.raised = Some("SystemExit")
  /\ menu.choice = Some(0)
  /\ Len(menu.ran) = 1


(***************************************************************************)
(* Registered machines of two kinds that gain and lose games; the searches *)
(* are evaluated before and after each call.                               *)
(***************************************************************************)
FrameFactoryArgs ==
  { << "Racing", wood, "Red" >>, << "ClassicalArcade", steel_, "Blue" >> }
FrameMaterialArgs == { Wood_ }

NextFrame ==
  \/ \E a \in FrameFactoryArgs : CreateMachine(a[1], a[2], a[3])
  \/ \E a \in CatalogGameArgs :
       NewVideogame(a[1], "Story", "Graphics", "Arcade", a[2], 1972, a[3])
  \/ \E m \in MachineIds, g \in GameIds : AddVideogame(m, g)
  \/ \E m \in MachineIds, g \in GameIds : RemoveVideogame(m, g)
  \/ \E m \in MachineIds : RegisterMachine(m)

SpecFrame == Init /\ [][NextFrame]_vars

\* C22: add_videogame and remove_videogame change nothing of a machine but
\* its videogames and its base_price: material, dimensions, weight,
\* power_consumption, memory, processors and color stay as they are; so each
\* such call, and hence any sequence of them, leaves the results of
\* search_by_material, search_by_weight_range and
\* search_by_power_consumption_range as they were.
C22_AddRemoveKeepOtherFields ==
  [][call'.op \in { "add_videogame", "remove_videogame" } =>
       /\ DOMAIN machines' = DOMAIN machines
       /\ \A m \in DOMAIN machines :
            /\ machines'[m].material = machines[m].material
            /\ machines'[m].dimensions = machines[m].dimensions
            /\ machines'[m].weight = machines[m].weight
            /\ machines'[m].power_consumption = machines[m].power_consumption
            /\ machines'[m].memory = machines[m].memory
            /\ machines'[m].processors = machines[m].processors
            /\ machines'[m].color = machines[m].color
       /\ \A material \in FrameMaterialArgs :
            search_by_material(material)' = search_by_material(material)
       /\ \A r \in WeightRangeArgs :
            search_by_weight_range(r[1], r[2])'
              = search_by_weight_range(r[1], r[2])
       /\ \A r \in PowerRangeArgs :
            search_by_power_consumption_range(r[1], r[2])'
              = search_by_power_consumption_range(r[1], r[2])
    ]_vars

\* a game was added to a registered machine that the weight search returns,
\* while another registered machine is outside the searched weights
C22_Witness ==
  /\ call.op = "add_videogame"
  /\ machines[call.args[1]].videogames # << >>
  /\ \E r \in WeightRangeArgs :
       /\ call.args[1] \in Range(search_by_weight_range(r[1], r[2]))
       /\ \E i \in DOMAIN catalog :
            catalog[i] \notin Range(search_by_weight_range(r[1], r[2]))
  /\ \E material \in FrameMaterialArgs :
       call.args[1] \in Range(search_by_material(material))

=============================================================================
